---- MODULE Spec2Model ----
(***************************************************************************)
(* Model of the stock dashboard's data service (services/stockService.js)  *)
(* and of the loading logic of App.vue.                                    *)
(*                                                                         *)
(* Strings are sequences of one-character strings, so that the regular     *)
(* expressions, trim, replace and parseFloat of the source are computed    *)
(* character by character.  Numbers are exact decimal fractions            *)
(* [k |-> "fin", n, d] (value n/d, d > 0, lowest terms) or one of the      *)
(* non-finite numbers PosInf, NegInf, NaN.  The sign of zero is not        *)
(* represented.                                                            *)
(***************************************************************************)
EXTENDS Integers, Sequences, FiniteSets, TLC

----------------------------------------------------------------------------
(* Characters and strings *)

\* F applied to the value of x, with x evaluated exactly once
With(x, F(_)) == CHOOSE r \in {F(v) : v \in {x}} : TRUE

Digits == {"0", "1", "2", "3", "4", "5", "6", "7", "8", "9"}

Letters ==
  {"A", "B", "C", "D", "E", "F", "G", "H", "I", "J", "K", "L", "M",
   "N", "O", "P", "Q", "R", "S", "T", "U", "V", "W", "X", "Y", "Z",
   "a", "b", "c", "d", "e", "f", "g", "h", "i", "j", "k", "l", "m",
   "n", "o", "p", "q", "r", "s", "t", "u", "v", "w", "x", "y", "z"}

DigitVal(c) ==
  CASE c = "0" -> 0 [] c = "1" -> 1 [] c = "2" -> 2 [] c = "3" -> 3
    [] c = "4" -> 4 [] c = "5" -> 5 [] c = "6" -> 6 [] c = "7" -> 7
    [] c = "8" -> 8 [] c = "9" -> 9

DigitChar(v) ==
  CASE v = 0 -> "0" [] v = 1 -> "1" [] v = 2 -> "2" [] v = 3 -> "3"
    [] v = 4 -> "4" [] v = 5 -> "5" [] v = 6 -> "6" [] v = 7 -> "7"
    [] v = 8 -> "8" [] v = 9 -> "9"

IsDigitAt(s, i) == i >= 1 /\ i <= Len(s) /\ s[i] \in Digits
IsLetterAt(s, i) == i >= 1 /\ i <= Len(s) /\ s[i] \in Letters
IsCharAt(s, i, c) == i >= 1 /\ i <= Len(s) /\ s[i] = c

\* s.substring(i - 1, j): the characters at the 1-based positions i..j that exist
Slice(s, i, j) ==
  LET lo == IF i < 1 THEN 1 ELSE i
      hi == IF j > Len(s) THEN Len(s) ELSE j
  IN  IF hi < lo THEN << >> ELSE SubSeq(s, lo, hi)

\* String.prototype.trim (the only white space of the model is " ")
RECURSIVE TrimLeft(_)
TrimLeft(s) == IF s # << >> /\ Head(s) = " " THEN TrimLeft(Tail(s)) ELSE s

RECURSIVE TrimRight(_)
TrimRight(s) ==
  IF s # << >> /\ s[Len(s)] = " " THEN TrimRight(SubSeq(s, 1, Len(s) - 1)) ELSE s

Trim(s) == TrimRight(TrimLeft(s))

\* value.replace(/,/g, ""): every occurrence of c removed
RemoveAll(s, c) == SelectSeq(s, LAMBDA x : x # c)

\* cleanValue.replace("%", ""): the first occurrence of c removed
RECURSIVE RemoveFirst(_, _)
RemoveFirst(s, c) ==
  IF s = << >> THEN << >>
  ELSE IF Head(s) = c THEN Tail(s)
  ELSE <<Head(s)>> \o RemoveFirst(Tail(s), c)

StartsWith(s, c) == Len(s) > 0 /\ s[1] = c
EndsWith(s, c) == Len(s) > 0 /\ s[Len(s)] = c

\* index just after the run of digits that starts at position i
RECURSIVE DigitRunEnd(_, _)
DigitRunEnd(s, i) == IF IsDigitAt(s, i) THEN DigitRunEnd(s, i + 1) ELSE i

\* value of the decimal digits s[i..j]; 0 for an empty range
RECURSIVE DigitsValue(_, _, _)
DigitsValue(s, i, j) ==
  IF j < i THEN 0 ELSE 10 * DigitsValue(s, i, j - 1) + DigitVal(s[j])

RECURSIVE Pow10(_)
Pow10(k) == IF k <= 0 THEN 1 ELSE 10 * Pow10(k - 1)

\* decimal digits of a natural number, most significant first
RECURSIVE NatToStr(_)
NatToStr(v) ==
  IF v < 10 THEN <<DigitChar(v)>> ELSE NatToStr(v \div 10) \o <<DigitChar(v % 10)>>

----------------------------------------------------------------------------
(* Numbers *)

Abs(x) == IF x < 0 THEN -x ELSE x

RECURSIVE GCD(_, _)
GCD(a, b) == IF b = 0 THEN a ELSE GCD(b, a % b)

NaN == [k |-> "nan"]
PosInf == [k |-> "inf"]
NegInf == [k |-> "-inf"]

\* the number n/d (d # 0) in lowest terms with a positive denominator
Reduced(n, d, g) ==
  IF d < 0 THEN [k |-> "fin", n |-> -(n \div g), d |-> -(d \div g)]
  ELSE [k |-> "fin", n |-> n \div g, d |-> d \div g]

Rat(n, d) ==
  With(n, LAMBDA nv : With(d, LAMBDA dv : With(GCD(Abs(nv), Abs(dv)),
                                             LAMBDA g : Reduced(nv, dv, g))))

Zero == Rat(0, 1)
IsFin(x) == x.k = "fin"
IsNaN(x) == x.k = "nan"
Sign(x) ==
  CASE x.k = "inf" -> 1
    [] x.k = "-inf" -> -1
    [] x.k = "nan" -> 0
    [] OTHER -> IF x.n > 0 THEN 1 ELSE IF x.n < 0 THEN -1 ELSE 0

\* a - b
NumSub(a0, b0) ==
  With(a0, LAMBDA a : With(b0, LAMBDA b :
    CASE IsNaN(a) \/ IsNaN(b) -> NaN
      [] IsFin(a) /\ IsFin(b) -> Rat(a.n * b.d - b.n * a.d, a.d * b.d)
      [] IsFin(a) -> IF b.k = "inf" THEN NegInf ELSE PosInf
      [] IsFin(b) -> a
      [] OTHER -> IF a.k = b.k THEN NaN ELSE a))

\* a / b
NumDiv(a0, b0) ==
  With(a0, LAMBDA a : With(b0, LAMBDA b :
    CASE IsNaN(a) \/ IsNaN(b) -> NaN
      [] IsFin(a) /\ IsFin(b) ->
           IF b.n # 0 THEN Rat(a.n * b.d, a.d * b.n)
           ELSE IF a.n = 0 THEN NaN
           ELSE IF a.n > 0 THEN PosInf ELSE NegInf
      [] IsFin(a) -> Zero
      [] IsFin(b) -> IF Sign(a) * (IF b.n < 0 THEN -1 ELSE 1) > 0 THEN PosInf ELSE NegInf
      [] OTHER -> NaN))

\* a * m for an integer m > 0
NumScale(a0, m) == With(a0, LAMBDA a : IF IsFin(a) THEN Rat(a.n * m, a.d) ELSE a)

\* a > b (false as soon as one side is NaN)
NumGt(a0, b0) ==
  With(a0, LAMBDA a : With(b0, LAMBDA b :
    CASE IsNaN(a) \/ IsNaN(b) -> FALSE
      [] IsFin(a) /\ IsFin(b) -> a.n * b.d > b.n * a.d
      [] OTHER -> (a.k = "inf" /\ b.k # "inf") \/ (b.k = "-inf" /\ a.k # "-inf")))

NumLt(a, b) == NumGt(b, a)

\* a === b on numbers (false as soon as one side is NaN)
NumEq(a0, b0) == With(a0, LAMBDA a : With(b0, LAMBDA b : ~IsNaN(a) /\ ~IsNaN(b) /\ a = b))

----------------------------------------------------------------------------
(* Cell values of a row: a JSON string, a JSON number, null, or undefined  *)
(* when the row has no such key.                                           *)

Str(s) == [t |-> "string", s |-> s]
Num(x) == [t |-> "number", v |-> x]
Null == [t |-> "null"]
Undefined == [t |-> "undefined"]

\* the value null where the source expects a number
NullNum == [k |-> "null"]

\* JavaScript truthiness of a cell
Truthy(c) ==
  CASE c.t = "string" -> c.s # << >>
    [] c.t = "number" -> ~IsNaN(c.v) /\ c.v # Zero
    [] OTHER -> FALSE

cInfinity == <<"I", "n", "f", "i", "n", "i", "t", "y">>

\* index of the first character of s at or after i that is not white space
RECURSIVE SkipWs(_, _)
SkipWs(s, i) == IF IsCharAt(s, i, " ") THEN SkipWs(s, i + 1) ELSE i

\* the exponent part that starts at position i3 of s, as the power of ten to
\* multiply by (0 when there is no well-formed exponent)
ExponentAt(s, i3) ==
  IF IsCharAt(s, i3, "e") \/ IsCharAt(s, i3, "E")
  THEN With(IF IsCharAt(s, i3 + 1, "-") \/ IsCharAt(s, i3 + 1, "+") THEN i3 + 2 ELSE i3 + 1,
            LAMBDA e1 :
              With(DigitRunEnd(s, e1),
                   LAMBDA e2 :
                     IF e2 = e1 THEN 0
                     ELSE IF IsCharAt(s, i3 + 1, "-") THEN -DigitsValue(s, e1, e2 - 1)
                     ELSE DigitsValue(s, e1, e2 - 1)))
  ELSE 0

\* the decimal literal of s whose digits start at i1, run to i2 - 1 and, after
\* a ".", go on to i3 - 1 (i3 = i2 without fraction), with sign sg
DecimalAt(s, sg, i1, i2, i3) ==
  With(IF i3 > i2 THEN i3 - (i2 + 1) ELSE 0,
       LAMBDA fracDigits :
         IF (i2 - i1) + fracDigits = 0 THEN NaN
         ELSE With(DigitsValue(s, i1, i2 - 1) * Pow10(fracDigits)
                     + DigitsValue(s, i2 + 1, i3 - 1),
                   LAMBDA mant :
                     With(ExponentAt(s, i3),
                          LAMBDA ex :
                            IF ex < 0 THEN Rat(sg * mant, Pow10(fracDigits) * Pow10(-ex))
                            ELSE Rat(sg * mant * Pow10(ex), Pow10(fracDigits)))))

\* the global parseFloat: the longest prefix of the trimmed string that is a
\* StrDecimalLiteral (sign, digits, fraction, exponent, or Infinity)
parseFloat(s) ==
  With(SkipWs(s, 1),
       LAMBDA i0 :
         With(IF IsCharAt(s, i0, "-") \/ IsCharAt(s, i0, "+") THEN i0 + 1 ELSE i0,
              LAMBDA i1 :
                IF Slice(s, i1, i1 + 7) = cInfinity
                THEN (IF IsCharAt(s, i0, "-") THEN NegInf ELSE PosInf)
                ELSE With(DigitRunEnd(s, i1),
                          LAMBDA i2 :
                            DecimalAt(s, IF IsCharAt(s, i0, "-") THEN -1 ELSE 1, i1, i2,
                                      IF IsCharAt(s, i2, ".") THEN DigitRunEnd(s, i2 + 1)
                                      ELSE i2))))

\* _getNumericValue, for a number cell and every other cell type
\* (the string case is _getNumericValue below)
NonStringNumericValue(value) ==
  IF value.t = "number" THEN value.v ELSE NullNum

\* the percent branch: the first "%" removed, parsed, divided by 100
PercentValue(cleanValue) ==
  With(parseFloat(RemoveFirst(cleanValue, "%")),
       LAMBDA parsed : IF IsNaN(parsed) THEN NullNum ELSE NumDiv(parsed, Rat(100, 1)))

\* the other strings: parentheses become a minus sign, then parsed
PlainValue(cleanValue) ==
  With(parseFloat(IF StartsWith(cleanValue, "(") /\ EndsWith(cleanValue, ")")
                  THEN <<"-">> \o Slice(cleanValue, 2, Len(cleanValue) - 1)
                  ELSE cleanValue),
       LAMBDA parsed : IF IsNaN(parsed) THEN NullNum ELSE parsed)

_getNumericValue(value) ==
  IF value.t = "string"
  THEN With(RemoveAll(value.s, ","),
            LAMBDA cleanValue :
              IF EndsWith(cleanValue, "%") THEN PercentValue(cleanValue)
              ELSE PlainValue(cleanValue))
  ELSE NonStringNumericValue(value)

----------------------------------------------------------------------------
(* Number formatting *)

cNaN == <<"N", "a", "N">>
cNA == <<"N", "/", "A">>
cInfPct == <<"I", "n", "f", "%">>
cNegInfPct == <<"-", "I", "n", "f", "%">>

\* |n|/d scaled by 10^f and rounded to the nearest integer, ties upwards
RoundScaled(x, f) == (2 * Abs(x.n) * Pow10(f) + x.d) \div (2 * x.d)

\* v as at least w decimal digits
RECURSIVE PadDigits(_, _)
PadDigits(v, w) ==
  IF w <= 1 THEN NatToStr(v) ELSE PadDigits(v \div 10, w - 1) \o <<DigitChar(v % 10)>>

\* Number.prototype.toFixed(2)
toFixed2(x) ==
  CASE x.k = "nan" -> cNaN
    [] x.k = "inf" -> cInfinity
    [] x.k = "-inf" -> <<"-">> \o cInfinity
    [] OTHER ->
         With(RoundScaled(x, 2),
              LAMBDA q :
                (IF x.n < 0 THEN <<"-">> ELSE << >>)
                \o NatToStr(q \div 100) \o <<".">> \o PadDigits(q % 100, 2))

\* the first "." of s replaced by ","
RECURSIVE ReplaceDot(_)
ReplaceDot(s) ==
  IF s = << >> THEN << >>
  ELSE IF Head(s) = "." THEN <<",">> \o Tail(s)
  ELSE <<Head(s)>> \o ReplaceDot(Tail(s))

\* de-DE grouping of the digits of the integer part
RECURSIVE GroupDigits(_)
GroupDigits(ds) ==
  IF Len(ds) <= 3 THEN ds
  ELSE GroupDigits(SubSeq(ds, 1, Len(ds) - 3)) \o <<".">> \o SubSeq(ds, Len(ds) - 2, Len(ds))

\* the digits ds without trailing zeros
RECURSIVE StripZeros(_)
StripZeros(ds) ==
  IF ds # << >> /\ ds[Len(ds)] = "0" THEN StripZeros(SubSeq(ds, 1, Len(ds) - 1)) ELSE ds

\* Number.prototype.toLocaleString("de-DE"): at most three fraction digits,
\* "." between groups of three, "," before the fraction
toLocaleStringDe(x) ==
  CASE x.k = "nan" -> cNaN
    [] x.k = "inf" -> <<"oo">>
    [] x.k = "-inf" -> <<"-", "oo">>
    [] OTHER ->
         With(RoundScaled(x, 3),
              LAMBDA q :
                With(StripZeros(PadDigits(q % 1000, 3)),
                     LAMBDA frac :
                       (IF x.n < 0 THEN <<"-">> ELSE << >>)
                       \o GroupDigits(NatToStr(q \div 1000))
                       \o (IF frac = << >> THEN << >> ELSE <<",">> \o frac)))

----------------------------------------------------------------------------
(* Dates.  A Date is its time value in hours since the epoch, or invalid.  *)
(* The environment fixes the local time zone (tz, hours east of UTC) and   *)
(* whether the engine's ISO parser rejects a day beyond the end of the     *)
(* month or lets it run over into the next month (lenientIso).             *)

VARIABLES tz, lenientIso

InvalidDate == [valid |-> FALSE]
DateOf(hours) == [valid |-> TRUE, t |-> hours]

\* days from 1970-01-01 to the civil date y-m-d (m in 1..12, any d)
DaysFromCivil(y, m, d) ==
  LET yy == IF m <= 2 THEN y - 1 ELSE y
      era == yy \div 400
      yoe == yy - era * 400
      mp == IF m > 2 THEN m - 3 ELSE m + 9
      doy == (153 * mp + 2) \div 5 + d - 1
      doe == yoe * 365 + yoe \div 4 - yoe \div 100 + doy
  IN  era * 146097 + doe - 719468

\* the civil date [y, m, d] (m in 1..12) of a day number
CivilFromDays(z0) ==
  With((z0 + 719468) \div 146097, LAMBDA era :
    With(z0 + 719468 - era * 146097, LAMBDA doe :
      With((doe - doe \div 1460 + doe \div 36524 - doe \div 146096) \div 365, LAMBDA yoe :
        With(doe - (365 * yoe + yoe \div 4 - yoe \div 100), LAMBDA doy :
          With((5 * doy + 2) \div 153, LAMBDA mp :
            [y |-> yoe + era * 400 + (IF mp < 10 THEN 0 ELSE 1),
             m |-> IF mp < 10 THEN mp + 3 ELSE mp - 9,
             d |-> doy - (153 * mp + 2) \div 5 + 1])))))

DaysInMonth(y, m) == DaysFromCivil(y, m + 1, 1) - DaysFromCivil(y, m, 1)

\* Date.prototype.getFullYear / getMonth: local time fields, NaN when invalid
LocalCivil(date) == With((date.t + tz) \div 24, LAMBDA z : CivilFromDays(z))
getFullYear(date) == IF date.valid THEN Rat(LocalCivil(date).y, 1) ELSE NaN
getMonth(date) == IF date.valid THEN Rat(LocalCivil(date).m - 1, 1) ELSE NaN

\* /^\d{4}-\d{2}-\d{2}$/.test(s)
IsIsoDate(s) ==
  /\ Len(s) = 10
  /\ \A i \in {1, 2, 3, 4, 6, 7, 9, 10} : s[i] \in Digits
  /\ s[5] = "-" /\ s[8] = "-"

\* /\d{1,2} [A-Za-z]{3} \d{2,4}/ matched at position i with a day of dl digits
DmyMatchAt(s, i, dl) ==
  /\ \A j \in i .. i + dl - 1 : IsDigitAt(s, j)
  /\ IsCharAt(s, i + dl, " ")
  /\ \A j \in i + dl + 1 .. i + dl + 3 : IsLetterAt(s, j)
  /\ IsCharAt(s, i + dl + 4, " ")
  /\ IsDigitAt(s, i + dl + 5) /\ IsDigitAt(s, i + dl + 6)

DmyMatches(s) ==
  {m \in (1 .. Len(s)) \X {1, 2} : DmyMatchAt(s, m[1], m[2])}

\* the match the regular expression engine reports: the leftmost start, and
\* there the two-digit day before the one-digit day
DmyFirstMatch(s) ==
  CHOOSE m \in DmyMatches(s) :
    \A o \in DmyMatches(s) : m[1] < o[1] \/ (m[1] = o[1] /\ m[2] >= o[2])

\* const monthNames = {Jan: 0, ..., Dec: 11}; -1 stands for undefined
monthNames(mon0) ==
  With(mon0, LAMBDA mon :
  CASE mon = <<"J", "a", "n">> -> 0
    [] mon = <<"F", "e", "b">> -> 1
    [] mon = <<"M", "a", "r">> -> 2
    [] mon = <<"A", "p", "r">> -> 3
    [] mon = <<"M", "a", "y">> -> 4
    [] mon = <<"J", "u", "n">> -> 5
    [] mon = <<"J", "u", "l">> -> 6
    [] mon = <<"A", "u", "g">> -> 7
    [] mon = <<"S", "e", "p">> -> 8
    [] mon = <<"O", "c", "t">> -> 9
    [] mon = <<"N", "o", "v">> -> 10
    [] mon = <<"D", "e", "c">> -> 11
    [] OTHER -> -1)

\* new Date(isoString) for a string IsIsoDate accepts: midnight UTC
NewDateIso(s) ==
  With(DigitsValue(s, 1, 4), LAMBDA y :
    With(DigitsValue(s, 6, 7), LAMBDA m :
      With(DigitsValue(s, 9, 10), LAMBDA d :
        IF m < 1 \/ m > 12 \/ d < 1 \/ d > (IF lenientIso THEN 31 ELSE DaysInMonth(y, m))
        THEN InvalidDate
        ELSE DateOf(DaysFromCivil(y, m, d) * 24))))

\* new Date(year, monthIndex, day): local midnight, the day running over
\* into the neighbouring months; invalid when monthIndex is undefined
NewDateLocal(year0, monthIndex0, day0) ==
  With(year0, LAMBDA year : With(monthIndex0, LAMBDA monthIndex : With(day0, LAMBDA day :
    IF monthIndex < 0 THEN InvalidDate
    ELSE DateOf(DaysFromCivil(year, monthIndex + 1, day) * 24 - tz))))

_isDateColumn(key) == DmyMatches(key) # {} \/ IsIsoDate(key)

\* the date of a day-month-year match whose day runs from dayStart to dayEnd:
\* the year is the two to four digits after the month, below 100 moved to 20xx
DmyDate(dateStr, dayStart, dayEnd) ==
  With(DigitRunEnd(dateStr, dayEnd + 6) - 1, LAMBDA yRun :
    With(DigitsValue(dateStr, dayEnd + 6, IF yRun > dayEnd + 9 THEN dayEnd + 9 ELSE yRun),
         LAMBDA year :
           NewDateLocal(IF year < 100 THEN year + 2000 ELSE year,
                        monthNames(Slice(dateStr, dayEnd + 2, dayEnd + 4)),
                        DigitsValue(dateStr, dayStart, dayEnd))))

_parseDateStringForSorting(dateStr) ==
  IF IsIsoDate(dateStr) THEN NewDateIso(dateStr)
  ELSE IF DmyMatches(dateStr) # {}
  THEN With(DmyFirstMatch(dateStr), LAMBDA m : DmyDate(dateStr, m[1], m[1] + m[2] - 1))
  ELSE DateOf(0)

----------------------------------------------------------------------------
(* Rows.  A row is the sequence of its [k, v] entries in key order, with   *)
(* distinct keys; rawData is a sequence of rows.                           *)

cEmpty == << >>
cRelease == <<"R", "e", "l", "e", "a", "s", "e">>
cQuarter == <<"Q", "u", "a", "r", "t", "e", "r">>
cEpisode == <<"E", "p", "i", "s", "o", "d", "e">>
cPeriod == <<"P", "e", "r", "i", "o", "d">>
cMetric == <<"M", "e", "t", "r", "i", "c">>
cUndefined == <<"u", "n", "d", "e", "f", "i", "n", "e", "d">>

\* Object.keys(row) and Object.values(row)
Keys(row) == [i \in 1 .. Len(row) |-> row[i].k]
Values(row) == [i \in 1 .. Len(row) |-> row[i].v]

\* row[key]
Get(row, key) ==
  IF \E i \in 1 .. Len(row) : row[i].k = key
  THEN row[CHOOSE i \in 1 .. Len(row) : row[i].k = key].v
  ELSE Undefined

Reverse(seq) == [i \in 1 .. Len(seq) |-> seq[Len(seq) + 1 - i]]

\* a replacement rule that also replaces on an equal value
ReplacesBestOnTie(numValue, maxRevenue, isReleaseColIdentifying) ==
  (NumGt(numValue, maxRevenue) \/ NumEq(numValue, maxRevenue)) /\ ~isReleaseColIdentifying

\* the condition under which _findRevenueRow lets a row replace the best guess
\* once it is a candidate
ReplacesBest(numValue, maxRevenue, isReleaseColIdentifying) ==
  NumGt(numValue, maxRevenue) /\ ~isReleaseColIdentifying

\* the loop of _findRevenueRow from row i on; rows are named by their index
\* in data, 0 is null
RECURSIVE FindRevenueRowFrom(_, _, _, _)
FindRevenueRowFrom(data, i, bestGuessRow, maxRevenue) ==
  IF i > Len(data) THEN bestGuessRow
  ELSE With(_getNumericValue(Get(data[i], cEmpty)), LAMBDA numValue :
         With(Get(data[i], cRelease), LAMBDA releaseColValue :
           IF /\ numValue # NullNum
              /\ NumGt(numValue, Rat(100, 1))
              /\ \E k \in 1 .. Len(data[i]) : _isDateColumn(Keys(data[i])[k])
              /\ ReplacesBest(numValue, maxRevenue,
                              /\ releaseColValue.t = "string"
                              /\ Trim(releaseColValue.s) \in {cQuarter, cEpisode, cPeriod, cMetric})
           THEN With(i, LAMBDA best : FindRevenueRowFrom(data, i + 1, best, numValue))
           ELSE FindRevenueRowFrom(data, i + 1, bestGuessRow, maxRevenue)))

_findRevenueRow(data) == FindRevenueRowFrom(data, 1, 0, Rat(-1, 1))

\* a zero-previous branch whose last test is "<= 0"
ZeroPreviousChangeNonPositive(calculatedChange) ==
  IF NumGt(calculatedChange, Zero)
  THEN [percentageChange |-> cInfPct, numericPercentageChange |-> PosInf]
  ELSE [percentageChange |-> cNegInfPct, numericPercentageChange |-> NegInf]

\* a zero-previous branch that sets the text and forgets the number
ZeroPreviousChangeTextOnly(calculatedChange) ==
  IF NumGt(calculatedChange, Zero)
  THEN [percentageChange |-> cInfPct, numericPercentageChange |-> NullNum]
  ELSE IF NumLt(calculatedChange, Zero)
  THEN [percentageChange |-> cNegInfPct, numericPercentageChange |-> NullNum]
  ELSE [percentageChange |-> cNA, numericPercentageChange |-> NullNum]

\* the percentage fields of _processRevenueCardData when the previous value
\* is zero: [percentageChange, numericPercentageChange]
ZeroPreviousChange(calculatedChange) ==
  IF NumGt(calculatedChange, Zero)
  THEN [percentageChange |-> cInfPct, numericPercentageChange |-> PosInf]
  ELSE IF NumLt(calculatedChange, Zero)
  THEN [percentageChange |-> cNegInfPct, numericPercentageChange |-> NegInf]
  ELSE [percentageChange |-> cNA, numericPercentageChange |-> NullNum]

\* the percentage fields for two parsed values
PercentageChange(latestRevenueVal, previousRevenueVal) ==
  With(NumSub(latestRevenueVal, previousRevenueVal), LAMBDA calculatedChange :
    IF ~NumEq(previousRevenueVal, Zero)
    THEN With(NumDiv(calculatedChange, previousRevenueVal), LAMBDA calculatedPercentageChange :
           [percentageChange |->
              ReplaceDot(toFixed2(NumScale(calculatedPercentageChange, 100))) \o <<"%">>,
            numericPercentageChange |-> calculatedPercentageChange])
    ELSE ZeroPreviousChange(calculatedChange))

\* the label of the catch block
LatestLabel(latestCol) ==
  <<"L", "a", "t", "e", "s", "t", " ", "(">> \o latestCol \o <<")">>

\* a default label that already is the fallback of the catch block
UnparsedLabelIsFallback(latestCol) == LatestLabel(latestCol)

\* the label left when the parsed date's year does not exceed 1900
UnparsedLabel(latestCol) == latestCol

\* the try block of _processRevenueCardData; parsing a string never throws,
\* so the catch block runs only when latestCol is not a string
RevenueLabel(latestCol) ==
  IF latestCol.t # "string"
  THEN LatestLabel(cUndefined)
  ELSE With(_parseDateStringForSorting(latestCol.s), LAMBDA date :
         With(getFullYear(date), LAMBDA year :
           IF NumGt(year, Rat(1900, 1))
           THEN <<"Q">> \o NatToStr((getMonth(date).n \div 3) + 1) \o <<" ">> \o NatToStr(year.n)
           ELSE UnparsedLabel(latestCol.s)))

\* allDateColumns[i], undefined beyond the end
ColAt(allDateColumns, i) ==
  IF i <= Len(allDateColumns) THEN Str(allDateColumns[i]) ELSE Undefined

\* the card for the two parsed values and the latest column
CardOf(latestRevenueVal, previousRevenueVal, latestCol) ==
  With(IF latestRevenueVal # NullNum /\ previousRevenueVal # NullNum
       THEN PercentageChange(latestRevenueVal, previousRevenueVal)
       ELSE [percentageChange |-> cNA, numericPercentageChange |-> NullNum],
       LAMBDA pct :
         [revenue |-> IF latestRevenueVal # NullNum
                      THEN toLocaleStringDe(latestRevenueVal) ELSE cNA,
          change |-> IF latestRevenueVal # NullNum /\ previousRevenueVal # NullNum
                     THEN toLocaleStringDe(NumSub(latestRevenueVal, previousRevenueVal))
                     ELSE cNA,
          percentageChange |-> pct.percentageChange,
          numericPercentageChange |-> pct.numericPercentageChange,
          revenueLabel |-> RevenueLabel(latestCol)])

_processRevenueCardData(revenueRow, allDateColumns) ==
  With(ColAt(allDateColumns, 1), LAMBDA latestCol :
    With(ColAt(allDateColumns, 2), LAMBDA prevCol :
      With(IF latestCol.t = "string" THEN _getNumericValue(Get(revenueRow, latestCol.s))
           ELSE NullNum,
           LAMBDA latestRevenueVal :
             With(IF Truthy(prevCol) THEN _getNumericValue(Get(revenueRow, prevCol.s))
                  ELSE NullNum,
                  LAMBDA previousRevenueVal :
                    CardOf(latestRevenueVal, previousRevenueVal, latestCol)))))

\* row[""] || row["Release"] || "": the first truthy operand, else the last
MetricCell(row) ==
  IF Truthy(Get(row, cEmpty)) THEN Get(row, cEmpty)
  ELSE IF Truthy(Get(row, cRelease)) THEN Get(row, cRelease)
  ELSE Str(cEmpty)

\* .trim() is a method of strings only: calling it on a number is a TypeError
TrimThrows(row) == MetricCell(row).t # "string"

\* the series of one row: the periods oldest first, unparseable cells left out
RECURSIVE SeriesOf(_, _)
SeriesOf(row, cols) ==
  IF cols = << >> THEN << >>
  ELSE With(_getNumericValue(Get(row, Head(cols))), LAMBDA value :
         With(Tail(cols), LAMBDA rest :
           (IF value # NullNum THEN <<[date |-> Head(cols), value |-> value]>> ELSE << >>)
           \o SeriesOf(row, rest)))

\* historicalData[metricName] = series
PutSeries(historicalData, metricName, series) ==
  [m \in DOMAIN historicalData \cup {metricName} |->
     IF m = metricName THEN series ELSE historicalData[m]]

\* the loop of _extractHistoricalData from row i on; the result is
\* [threw |-> TRUE] when a row makes the function throw
RECURSIVE ExtractFrom(_, _, _, _)
ExtractFrom(rawData, allDateColumns, i, historicalData) ==
  IF i > Len(rawData) THEN [threw |-> FALSE, value |-> historicalData]
  ELSE IF TrimThrows(rawData[i]) THEN [threw |-> TRUE]
  ELSE With(Trim(MetricCell(rawData[i]).s), LAMBDA metricName :
         With(SeriesOf(rawData[i], Reverse(allDateColumns)), LAMBDA series :
           With(i + 1, LAMBDA next :
             IF metricName # cEmpty /\ metricName \notin {cQuarter, cEpisode} /\ Len(series) > 0
             THEN With(PutSeries(historicalData, metricName, series),
                       LAMBDA h : ExtractFrom(rawData, allDateColumns, next, h))
             ELSE ExtractFrom(rawData, allDateColumns, next, historicalData))))

EmptyObject == [m \in {} |-> << >>]

_extractHistoricalData(rawData, allDateColumns) ==
  ExtractFrom(rawData, allDateColumns, 1, EmptyObject)

----------------------------------------------------------------------------
(* The assembler *)

\* the all-"N/A" card of the source
NACard ==
  [revenue |-> cNA, change |-> cNA, percentageChange |-> cNA,
   numericPercentageChange |-> NullNum, revenueLabel |-> cNA]

\* the object cached when the payload is empty and in the catch block
DegradedData == [cardData |-> NACard, historicalData |-> EmptyObject, allRows |-> << >>]

\* the sequence seq with its element at position i taken out
RemoveAt(seq, i) == SubSeq(seq, 1, i - 1) \o SubSeq(seq, i + 1, Len(seq))

\* the comparator of the sort: parse(b) - parse(a), NaN when a date is invalid
CompareCols(a, b) ==
  With(_parseDateStringForSorting(a), LAMBDA da :
    With(_parseDateStringForSorting(b), LAMBDA db :
      IF da.valid /\ db.valid THEN Rat(db.t - da.t, 1) ELSE NaN))

\* the stable sort of cols under a comparator that never returns NaN:
\* repeatedly the first element that no other element must precede
RECURSIVE StableSort(_)
StableSort(cols) ==
  IF cols = << >> THEN << >>
  ELSE With(CHOOSE j \in 1 .. Len(cols) :
              /\ \A o \in 1 .. Len(cols) : ~NumLt(CompareCols(cols[o], cols[j]), Zero)
              /\ \A o \in 1 .. j - 1 : ~NumEq(CompareCols(cols[o], cols[j]), Zero),
            LAMBDA i :
              With(RemoveAt(cols, i), LAMBDA rest : <<cols[i]>> \o StableSort(rest)))

Orderings(cols) ==
  {p \in [1 .. Len(cols) -> {cols[i] : i \in 1 .. Len(cols)}] :
     \A i, j \in 1 .. Len(cols) : i # j => p[i] # p[j]}

\* the results Array.prototype.sort may give: the stable sorted order when the
\* comparator is consistent; when a comparison is NaN the order is left to
\* the implementation
SortResults(cols) ==
  IF \A i, j \in 1 .. Len(cols) : i # j => ~IsNaN(CompareCols(cols[i], cols[j]))
  THEN {StableSort(cols)}
  ELSE Orderings(cols)

\* firstRowKeys.filter(_isDateColumn)
DateColumnsOf(rawData) == SelectSeq(Keys(rawData[1]), _isDateColumn)

\* rawData.filter(row => Object.values(row).some(val => val !== "" && val !== null))
IsRelevantRow(row) ==
  \E i \in 1 .. Len(row) : Values(row)[i] # Str(cEmpty) /\ Values(row)[i] # Null

\* whether the guard lets the summarizer and the extractor run
RunsSummarizer(revenueRow, allDateColumns) == revenueRow # 0 /\ Len(allDateColumns) > 0

\* the try block of getCompanyDashboardData after rawData has arrived, for a
\* non-empty array rawData and one result allDateColumns of the sort
Assemble(rawData, allDateColumns) ==
  With(_findRevenueRow(rawData), LAMBDA revenueRow :
    IF RunsSummarizer(revenueRow, allDateColumns)
    THEN With(_extractHistoricalData(rawData, allDateColumns), LAMBDA hist :
           IF hist.threw THEN DegradedData
           ELSE [cardData |-> _processRevenueCardData(rawData[revenueRow], allDateColumns),
                 historicalData |-> hist.value,
                 allRows |-> SelectSeq(rawData, IsRelevantRow)])
    ELSE [cardData |-> NACard, historicalData |-> EmptyObject,
          allRows |-> SelectSeq(rawData, IsRelevantRow)])

----------------------------------------------------------------------------
(* State of the service, of its callers and of the App component *)

VARIABLES
  cache,            \* companyDataCache: key -> DashboardData, NoEntry when absent
  calls,            \* the calls of getCompanyDashboardData, by call id
  lastSettled,      \* key -> id of the fetching call that settled last, 0 if none
  fetchCount,       \* key -> number of upstream fetches issued so far
  isLoading,        \* App: data().isLoading
  error,            \* App: data().error, "null" or the message
  dashboardData,    \* App: company index -> company.dashboardData
  currentCompany,   \* App: ticker of currentCompany
  appPc,            \* App: where created() stands
  pin,              \* input of the pure function under check
  pout              \* its result, NotRun before the call

vars ==
  <<tz, lenientIso, cache, calls, lastSettled, fetchCount, isLoading, error,
    dashboardData, currentCompany, appPc, pin, pout>>

envVars == <<tz, lenientIso>>
serviceVars == <<cache, calls, lastSettled, fetchCount>>
appVars == <<isLoading, error, dashboardData, currentCompany, appPc>>
pureVars == <<pin, pout>>

NoEntry == [none |-> TRUE]
NotRun == [notRun |-> TRUE]

\* magnificentSeven, by position: the ticker of each company
magnificentSeven == <<"GOOG", "AAPL", "META", "MSFT", "AMZN", "NVDA", "TSLA">>
NumCompanies == Len(magnificentSeven)
Companies == 1 .. NumCompanies

\* `$${company.ticker}`
TickerKey(i) ==
  <<"$GOOG", "$AAPL", "$META", "$MSFT", "$AMZN", "$NVDA", "$TSLA">>[i]
Tickers == {TickerKey(i) : i \in Companies}

\* a call: where it stands, its key, whether it issued a fetch, what the
\* upstream answered (history), the value it wrote to the cache (history) and
\* the value its promise is fulfilled with
IdleCall ==
  [pc |-> "idle", key |-> "", fetched |-> FALSE, got |-> [kind |-> "none"],
   wrote |-> NoEntry, result |-> NoEntry]

\* what response.json() can settle with
InvalidJson == [kind |-> "invalid"]
NullPayload == [kind |-> "null"]
ObjectPayload == [kind |-> "object"]
ArrayPayload(rows) == [kind |-> "array", rows |-> rows]

\* the orders the sort may leave the date columns of a payload in
ColumnOrders(payload) ==
  IF payload.kind = "array" /\ Len(payload.rows) > 0
  THEN SortResults(DateColumnsOf(payload.rows))
  ELSE {<< >>}

\* a catch block that returns the degraded object without caching it
CatchBlockNoCache == [pc |-> "done", write |-> FALSE, result |-> DegradedData]

\* a catch block that passes the failure on to the caller
CatchBlockRethrow == [pc |-> "rejected", write |-> FALSE, result |-> NoEntry]

\* how the catch block of getCompanyDashboardData ends the call: it caches
\* and returns the degraded object
CatchBlock == [pc |-> "done", write |-> TRUE, result |-> DegradedData]

\* how the call ends once response.json() has settled with payload and the
\* sort has given cols.  An invalid body rejects, and a payload that is not
\* an array makes "for (const row of data)" throw: both end in the catch block
AfterJson(payload, cols) ==
  CASE payload.kind = "invalid" -> CatchBlock
    [] payload.kind = "object" -> CatchBlock
    [] payload.kind = "null" -> [pc |-> "done", write |-> TRUE, result |-> DegradedData]
    [] OTHER ->
         IF Len(payload.rows) = 0
         THEN [pc |-> "done", write |-> TRUE, result |-> DegradedData]
         ELSE [pc |-> "done", write |-> TRUE, result |-> Assemble(payload.rows, cols)]

\* a cache that keeps the first value written for a key
CacheWriteIfAbsent(c, key, value) == IF c[key] # NoEntry THEN c ELSE [c EXCEPT ![key] = value]

\* companyDataCache[sheetName] = value
CacheWrite(c, key, value) == [c EXCEPT ![key] = value]

\* the end of a call that answered got: the cache write and the settled promise
Settle(c, got, end) ==
  /\ calls' = [calls EXCEPT ![c].pc = end.pc, ![c].result = end.result, ![c].got = got,
                            ![c].wrote = IF end.write THEN end.result ELSE NoEntry]
  /\ cache' = IF end.write THEN CacheWrite(cache, calls[c].key, end.result) ELSE cache
  /\ lastSettled' = [lastSettled EXCEPT ![calls[c].key] = c]

\* whether the cache lookup at the head of getCompanyDashboardData hits
CacheHit(key) == cache[key] # NoEntry

\* the call record after getCompanyDashboardData(key) has run up to its
\* first await: fulfilled from the cache, or waiting for the fetch
StartedCall(key) ==
  IF CacheHit(key)
  THEN [IdleCall EXCEPT !.pc = "done", !.key = key, !.result = cache[key]]
  ELSE [IdleCall EXCEPT !.pc = "fetching", !.key = key, !.fetched = TRUE]

\* getCompanyDashboardData(key) up to its first await: the cache lookup and,
\* on a miss, the fetch
StartCall(c, key) ==
  /\ calls[c].pc = "idle"
  /\ calls' = [calls EXCEPT ![c] = StartedCall(key)]
  /\ fetchCount' = [fetchCount EXCEPT ![key] = IF StartedCall(key).fetched THEN @ + 1 ELSE @]
  /\ UNCHANGED <<cache, lastSettled>>

\* await fetch(...) settles: a rejection or a non-ok status ends in the catch
\* block, an ok response goes on to response.json()
FetchSettles(c, outcome) ==
  /\ calls[c].pc = "fetching"
  /\ IF outcome = "ok"
     THEN /\ calls' = [calls EXCEPT ![c].pc = "reading"]
          /\ UNCHANGED <<cache, lastSettled>>
     ELSE Settle(c, [kind |-> outcome], CatchBlock)
  /\ UNCHANGED fetchCount

\* await response.json() settles and the rest of the function runs
JsonSettles(c, payload) ==
  /\ calls[c].pc = "reading"
  /\ \E cols \in ColumnOrders(payload) :
       \E end \in {AfterJson(payload, cols)} : Settle(c, payload, end)
  /\ UNCHANGED fetchCount

FetchOutcomes == {"reject", "notok", "ok"}

----------------------------------------------------------------------------
(* Inputs: column headers, cells and rows the sheets can hold *)

hIsoApr == <<"2", "0", "2", "4", "-", "0", "4", "-", "0", "1">>
hIsoJan == <<"2", "0", "2", "4", "-", "0", "1", "-", "0", "1">>
hIsoFeb30 == <<"2", "0", "2", "4", "-", "0", "2", "-", "3", "0">>
hDmyDec == <<"3", "1", " ", "D", "e", "c", " ", "2", "3">>
hDmyFoo == <<"1", " ", "F", "o", "o", " ", "2", "4">>
hDmyOld == <<"1", " ", "J", "a", "n", " ", "1", "8", "5", "0">>
hNotes == <<"N", "o", "t", "e", "s">>

c0 == <<"0">>
c7 == <<"7">>
c50 == <<"5", "0">>
c100 == <<"1", "0", "0">>
c150 == <<"1", "5", "0">>
c200 == <<"2", "0", "0">>
c500 == <<"5", "0", "0">>
cNeg50 == <<"(", "5", "0", ")">>
cAbc == <<"a", "b", "c">>
cRev == <<"R", "e", "v">>
cRevPadded == <<" ", "R", "e", "v", " ">>
cNet == <<"N", "e", "t">>
cBlank == <<" ">>
cQuarterPadded == <<" ", "Q", "u", "a", "r", "t", "e", "r", " ">>

Entry(k, v) == [k |-> k, v |-> v]

\* the row with the given label and Release cells (Undefined: no such key)
\* and the given cells under the headers cols
MakeRow(label, release, cols, cells) ==
  (IF label = Undefined THEN << >> ELSE <<Entry(cEmpty, label)>>)
  \o (IF release = Undefined THEN << >> ELSE <<Entry(cRelease, release)>>)
  \o [i \in 1 .. Len(cols) |-> Entry(cols[i], cells[i])]

\* the sequences over S of length lo .. hi
SeqsOf(S, lo, hi) == UNION {[1 .. n -> S] : n \in lo .. hi}

TimeZones == {-5, 0, 2}

InitEnv == tz \in TimeZones /\ lenientIso \in BOOLEAN
InitEnvFixed == tz = 0 /\ lenientIso = FALSE

InitServiceIdle(callIds) ==
  /\ cache = [k \in Tickers |-> NoEntry]
  /\ calls = [c \in callIds |-> IdleCall]
  /\ lastSettled = [k \in Tickers |-> 0]
  /\ fetchCount = [k \in Tickers |-> 0]

\* the App before created() has run
InitAppIdle ==
  /\ isLoading = TRUE
  /\ error = "null"
  /\ dashboardData = [i \in Companies |-> NoEntry]
  /\ currentCompany = ""
  /\ appPc = "init"

InitPureIdle == pin = NotRun /\ pout = NotRun

----------------------------------------------------------------------------
(* SpecService: callers of getCompanyDashboardData that start calls for any *)
(* key at any time                                                          *)

MaxCalls == 3
ServiceTickers == {TickerKey(1), TickerKey(2)}

RowsA == <<MakeRow(Str(c500), Undefined, <<hIsoJan, hIsoApr>>, <<Str(c100), Str(c150)>>)>>
RowsB == <<MakeRow(Str(c200), Str(cNet), <<hIsoApr>>, <<Str(c7)>>)>>

ServicePayloads == {ArrayPayload(<< >>), ArrayPayload(RowsA), ArrayPayload(RowsB)}

InitService ==
  InitEnvFixed /\ InitServiceIdle(1 .. MaxCalls) /\ InitAppIdle /\ InitPureIdle

ClientStartsCall ==
  /\ \E c \in DOMAIN calls, key \in ServiceTickers : StartCall(c, key)
  /\ UNCHANGED <<envVars, appVars, pureVars>>

ClientFetchSettles ==
  /\ \E c \in DOMAIN calls, outcome \in FetchOutcomes : FetchSettles(c, outcome)
  /\ UNCHANGED <<envVars, appVars, pureVars>>

ClientJsonSettles ==
  /\ \E c \in DOMAIN calls, payload \in ServicePayloads : JsonSettles(c, payload)
  /\ UNCHANGED <<envVars, appVars, pureVars>>

NextService == ClientStartsCall \/ ClientFetchSettles \/ ClientJsonSettles

SpecService == InitService /\ [][NextService]_vars

----------------------------------------------------------------------------
(* SpecPipeline: one call of getCompanyDashboardData, with every answer the *)
(* upstream can give and every environment                                  *)

MaxPipeRows == 2

PipeColumns == {<<hIsoJan, hIsoApr>>, <<hIsoApr, hDmyFoo>>, <<hIsoFeb30>>, <<hNotes>>}
PipeLabels == {Str(c500), Num(Rat(500, 1)), Str(cRev)}
PipeReleases == {Undefined}
PipeCells ==
  {<<Str(c100), Str(c150)>>, <<Str(c0), Str(c0)>>, <<Str(c0), Str(c150)>>,
   <<Null, Num(Rat(150, 1))>>}

PipeRows(cols) ==
  {MakeRow(label, release, cols, SubSeq(cells, 1, Len(cols))) :
     label \in PipeLabels, release \in PipeReleases, cells \in PipeCells}

PipelinePayloads ==
  {InvalidJson, NullPayload, ObjectPayload, ArrayPayload(<< >>)}
  \cup {ArrayPayload(rows) :
          rows \in UNION {SeqsOf(PipeRows(cols), 1, MaxPipeRows) : cols \in PipeColumns}}

InitPipeline == InitEnv /\ InitServiceIdle({1}) /\ InitAppIdle /\ InitPureIdle

PipelineStartsCall ==
  /\ StartCall(1, TickerKey(1))
  /\ UNCHANGED <<envVars, appVars, pureVars>>

PipelineFetchSettles ==
  /\ \E outcome \in FetchOutcomes : FetchSettles(1, outcome)
  /\ UNCHANGED <<envVars, appVars, pureVars>>

PipelineJsonSettles ==
  /\ \E payload \in PipelinePayloads : JsonSettles(1, payload)
  /\ UNCHANGED <<envVars, appVars, pureVars>>

NextPipeline == PipelineStartsCall \/ PipelineFetchSettles \/ PipelineJsonSettles

SpecPipeline == InitPipeline /\ [][NextPipeline]_vars

----------------------------------------------------------------------------
(* SpecApp: the App component loading its seven companies *)

AppFetchOutcomes == {"reject", "ok"}
AppPayloads == {ArrayPayload(RowsA)}

InitApp == InitEnvFixed /\ InitServiceIdle(Companies) /\ InitAppIdle /\ InitPureIdle

\* The continuations that run as microtasks in the task that settles a call,
\* before any other fetch can answer, given the calls as that task leaves them:
\*  - the map callback of each completed call resumes after its await and
\*    sets company.dashboardData; an awaited rejection rejects its promise;
\*  - await Promise.all(fetchPromises) settles if it was pending: fulfilled
\*    when all seven callbacks have finished, rejected as soon as one has;
\*    the catch block sets error, the finally block clears isLoading;
\*  - created() resumes and selects the first company when there is no
\*    error and every company has its card.
RunContinuations(joinPending) ==
  LET rejected == \E i \in Companies : calls'[i].pc = "rejected"
      fulfilled == \A i \in Companies : calls'[i].pc = "done"
      settles == joinPending /\ (rejected \/ fulfilled)
  IN  /\ dashboardData' = [i \in Companies |->
                             IF calls'[i].pc = "done" THEN calls'[i].result
                             ELSE dashboardData[i]]
      /\ isLoading' = IF settles THEN FALSE ELSE IF joinPending THEN TRUE ELSE isLoading
      /\ error' = IF settles /\ rejected THEN "Fehler beim Laden der Unternehmensdaten."
                  ELSE IF joinPending THEN "null" ELSE error
      /\ appPc' = IF settles THEN "ready" ELSE IF joinPending THEN "loading" ELSE appPc
      /\ currentCompany' = IF settles /\ ~rejected /\ fulfilled
                           THEN magnificentSeven[1] ELSE currentCompany

\* created(): loadAllCompanyDashboardData sets the flags and the map callback
\* starts one call per company, each running up to its first await
Created ==
  /\ appPc = "init"
  /\ calls' = [i \in Companies |-> StartedCall(TickerKey(i))]
  /\ fetchCount' = [key \in Tickers |->
                      IF \E i \in Companies : TickerKey(i) = key /\ ~CacheHit(key)
                      THEN fetchCount[key] + 1 ELSE fetchCount[key]]
  /\ RunContinuations(TRUE)
  /\ UNCHANGED <<cache, lastSettled, envVars, pureVars>>

\* the fetch of one company settles
AppFetchSettles ==
  /\ appPc # "init"
  /\ \E i \in Companies, outcome \in AppFetchOutcomes : FetchSettles(i, outcome)
  /\ RunContinuations(appPc = "loading")
  /\ UNCHANGED <<envVars, pureVars>>

\* the body of one company's response has been read
AppJsonSettles ==
  /\ appPc # "init"
  /\ \E i \in Companies, payload \in AppPayloads : JsonSettles(i, payload)
  /\ RunContinuations(appPc = "loading")
  /\ UNCHANGED <<envVars, pureVars>>

NextApp == Created \/ AppFetchSettles \/ AppJsonSettles

SpecApp == InitApp /\ [][NextApp]_vars

----------------------------------------------------------------------------
(* SpecFind, SpecCard, SpecHist: the pure functions applied to inputs drawn *)
(* from bounded sets                                                        *)

MaxFindRows == 3
MaxCardCols == 2
MaxHistRows == 2

FindLabels == {Str(c200), Str(c500), Num(Rat(300, 1)), Str(c50), Str(cAbc)}
FindReleases == {Undefined, Str(cQuarterPadded)}
FindRows ==
  {MakeRow(label, release, <<col>>, <<Str(c7)>>) :
     label \in FindLabels, release \in FindReleases, col \in {hIsoApr, hNotes}}

InitFind ==
  /\ InitEnvFixed /\ InitServiceIdle({1}) /\ InitAppIdle
  /\ pin \in {[fn |-> "find", data |-> data] : data \in SeqsOf(FindRows, 0, MaxFindRows)}
  /\ pout = NotRun

RunFindRevenueRow ==
  /\ pin.fn = "find" /\ pout = NotRun
  /\ pout' = [row |-> _findRevenueRow(pin.data)]
  /\ UNCHANGED <<pin, envVars, serviceVars, appVars>>

SpecFind == InitFind /\ [][RunFindRevenueRow]_vars

CardHeaders == {hIsoApr, hDmyDec, hDmyFoo, hDmyOld, hIsoFeb30}
CardCells == {Str(c150), Str(c0), Str(cNeg50), Num(Rat(100, 1)), Null}
CardColumnLists ==
  {cols \in SeqsOf(CardHeaders, 1, MaxCardCols) :
     \A i, j \in 1 .. Len(cols) : i # j => cols[i] # cols[j]}
CardInputs ==
  UNION {{[fn |-> "card", cols |-> cols, row |-> MakeRow(Str(cRev), Undefined, cols, cells)] :
            cells \in [1 .. Len(cols) -> CardCells]} : cols \in CardColumnLists}

InitCard ==
  /\ InitEnv /\ InitServiceIdle({1}) /\ InitAppIdle
  /\ pin \in CardInputs
  /\ pout = NotRun

RunProcessRevenueCardData ==
  /\ pin.fn = "card" /\ pout = NotRun
  /\ pout' = _processRevenueCardData(pin.row, pin.cols)
  /\ UNCHANGED <<pin, envVars, serviceVars, appVars>>

SpecCard == InitCard /\ [][RunProcessRevenueCardData]_vars

HistLabels ==
  {Undefined, Str(cRev), Str(cRevPadded), Str(cBlank), Str(cQuarter), Num(Rat(200, 1))}
HistReleases == {Undefined, Str(cNet)}
HistCells == {<<Str(c150), Str(c7)>>, <<Str(cAbc), Str(c7)>>, <<Str(cAbc), Null>>}
HistColumns == <<hIsoApr, hIsoJan>>
HistRows ==
  {MakeRow(label, release, HistColumns, cells) :
     label \in HistLabels, release \in HistReleases, cells \in HistCells}

InitHist ==
  /\ InitEnvFixed /\ InitServiceIdle({1}) /\ InitAppIdle
  /\ pin \in {[fn |-> "hist", cols |-> HistColumns, data |-> data] :
                data \in SeqsOf(HistRows, 1, MaxHistRows)}
  /\ pout = NotRun

RunExtractHistoricalData ==
  /\ pin.fn = "hist" /\ pout = NotRun
  /\ pout' = _extractHistoricalData(pin.data, pin.cols)
  /\ UNCHANGED <<pin, envVars, serviceVars, appVars>>

SpecHist == InitHist /\ [][RunExtractHistoricalData]_vars

----------------------------------------------------------------------------
(* SpecNumeric: _getNumericValue applied to cells drawn from bounded sets   *)

MaxNumLen == 4

NumericChars == {"1", "5", ",", "%", "(", ")", "-", ".", "a"}
NumericCells ==
  {Str(s) : s \in SeqsOf(NumericChars, 0, MaxNumLen)}
  \cup {Num(Rat(42, 1)), Num(Rat(-5, 2)), Null, Undefined}

InitNumeric ==
  /\ InitEnvFixed /\ InitServiceIdle({1}) /\ InitAppIdle
  /\ pin \in {[fn |-> "numeric", value |-> value] : value \in NumericCells}
  /\ pout = NotRun

RunGetNumericValue ==
  /\ pin.fn = "numeric" /\ pout = NotRun
  /\ pout' = [value |-> _getNumericValue(pin.value)]
  /\ UNCHANGED <<pin, envVars, serviceVars, appVars>>

SpecNumeric == InitNumeric /\ [][RunGetNumericValue]_vars

----------------------------------------------------------------------------
(* SpecSort: the filter and sort of the first row's keys in                 *)
(* getCompanyDashboardData, for headers drawn from a bounded set and every  *)
(* environment                                                              *)

MaxSortCols == 3

hIsoMonth13 == <<"2", "0", "2", "4", "-", "1", "3", "-", "0", "1">>

SortHeaders == {hIsoApr, hIsoJan, hIsoFeb30, hIsoMonth13, hDmyDec, hDmyFoo, hNotes}
SortHeaderLists ==
  {cols \in SeqsOf(SortHeaders, 1, MaxSortCols) :
     \A i, j \in 1 .. Len(cols) : i # j => cols[i] # cols[j]}

InitSort ==
  /\ InitEnv /\ InitServiceIdle({1}) /\ InitAppIdle
  /\ pin \in {[fn |-> "sort",
               data |-> <<MakeRow(Str(cRev), Undefined, cols, [i \in 1 .. Len(cols) |-> Str(c7)])>>] :
                cols \in SortHeaderLists}
  /\ pout = NotRun

\* firstRowKeys.filter(_isDateColumn).sort(...): allDateColumns is one of the
\* results the sort may give
RunSortDateColumns ==
  /\ pin.fn = "sort" /\ pout = NotRun
  /\ \E allDateColumns \in SortResults(DateColumnsOf(pin.data)) :
       pout' = [allDateColumns |-> allDateColumns]
  /\ UNCHANGED <<pin, envVars, serviceVars, appVars>>

SpecSort == InitSort /\ [][RunSortDateColumns]_vars

----------------------------------------------------------------------------
(* Claims about the cache (SpecService) *)

CallIds == DOMAIN calls

\* some call for key has completed
CompletedFor(key) == \E c \in CallIds : calls[c].pc = "done" /\ calls[c].key = key

\* this step starts call c for key
Starts(c, key) == calls[c].pc = "idle" /\ calls'[c].pc # "idle" /\ calls'[c].key = key

\* C1: once a call for a key has completed, every call for that key that starts
\* afterwards is fulfilled at once with the value the cache holds, issues no
\* upstream fetch and leaves the cache alone; an entry of the cache is never
\* removed.
CachedKeyIsServedFromCache ==
  [][\A key \in Tickers :
       /\ cache[key] # NoEntry => cache'[key] # NoEntry
       /\ \A c \in CallIds :
            CompletedFor(key) /\ Starts(c, key)
              => /\ cache[key] # NoEntry
                 /\ calls'[c].pc = "done"
                 /\ calls'[c].result = cache[key]
                 /\ ~calls'[c].fetched
                 /\ fetchCount' = fetchCount
                 /\ cache' = cache]_vars

\* a call answered from the cache after the only earlier call for its key
\* failed, next to a call for another key that assembled rows
WitnessCachedKeyIsServedFromCache ==
  \E c1, c2, c3 \in CallIds :
    /\ calls[c1].pc = "done" /\ calls[c1].fetched /\ calls[c1].got.kind = "reject"
    /\ calls[c2].pc = "done" /\ ~calls[c2].fetched /\ calls[c2].key = calls[c1].key
    /\ calls[c2].result = DegradedData /\ fetchCount[calls[c2].key] = 1
    /\ calls[c3].pc = "done" /\ calls[c3].fetched /\ calls[c3].result # DegradedData

\* the calls for key that issued a fetch and have settled
SettledFetchers(key) ==
  {c \in CallIds : calls[c].key = key /\ calls[c].fetched /\ calls[c].pc = "done"}

\* C3: calls for one key that start before the cache has an entry all miss and
\* each issues its own fetch; the cache entry is the value written by the call
\* that settled last, and each call is fulfilled with the value it wrote.
RacingCallsBothFetchLastWriteWins ==
  /\ [](\A key \in Tickers :
          /\ \A c \in SettledFetchers(key) : calls[c].result = calls[c].wrote
          /\ SettledFetchers(key) # {}
               => /\ lastSettled[key] \in SettledFetchers(key)
                  /\ cache[key] = calls[lastSettled[key]].wrote)
  /\ [][\A key \in Tickers : \A c \in CallIds :
          Starts(c, key) /\ cache[key] = NoEntry
            => /\ calls'[c].pc = "fetching"
               /\ fetchCount'[key] = fetchCount[key] + 1]_vars

\* two calls for one key that both fetched and wrote different values; the
\* cache holds the value of the one that settled last
WitnessRacingCallsBothFetchLastWriteWins ==
  \E c1, c2 \in CallIds :
    /\ c1 # c2 /\ calls[c1].key = calls[c2].key
    /\ calls[c1].pc = "done" /\ calls[c2].pc = "done"
    /\ calls[c1].fetched /\ calls[c2].fetched
    /\ fetchCount[calls[c1].key] >= 2
    /\ calls[c1].result # calls[c2].result
    /\ lastSettled[calls[c1].key] = c2
    /\ cache[calls[c1].key] = calls[c2].result

----------------------------------------------------------------------------
(* Claims about the assembled data (SpecPipeline) *)

\* the upstream failed: the fetch rejected, the status was not ok, or the
\* payload was null or empty
GotFailure(c) ==
  \/ calls[c].got.kind \in {"reject", "notok", "null"}
  \/ calls[c].got.kind = "array" /\ Len(calls[c].got.rows) = 0

IsPlaceholder(data) ==
  /\ data.cardData.revenue = cNA
  /\ data.cardData.change = cNA
  /\ data.cardData.percentageChange = cNA
  /\ data.cardData.numericPercentageChange = NullNum
  /\ data.historicalData = EmptyObject
  /\ data.allRows = << >>

\* C2: no call ends in a rejection, and a call whose upstream failed is
\* fulfilled with, and has stored in the cache, the all-"N/A" data with empty
\* historicalData and empty allRows.
FailureGivesPlaceholderNeverRejection ==
  \A c \in CallIds :
    /\ calls[c].pc # "rejected"
    /\ calls[c].pc = "done" /\ GotFailure(c)
         => /\ IsPlaceholder(calls[c].result)
            /\ calls[c].wrote = calls[c].result
            /\ cache[calls[c].key] = calls[c].result

\* a call that got a non-ok status and is fulfilled with the placeholder
WitnessFailureGivesPlaceholderNeverRejection ==
  \E c \in CallIds :
    calls[c].pc = "done" /\ calls[c].got.kind = "notok" /\ IsPlaceholder(calls[c].result)

NullIffNA(cardData) ==
  cardData.numericPercentageChange = NullNum <=> cardData.percentageChange = cNA

\* C5: in every card the cache holds or a call returned,
\* numericPercentageChange is null exactly when percentageChange is "N/A".
NumericChangeNullIffNA ==
  /\ \A key \in Tickers : cache[key] # NoEntry => NullIffNA(cache[key].cardData)
  /\ \A c \in CallIds : calls[c].pc = "done" => NullIffNA(calls[c].result.cardData)

\* a cached card of the summarizer with a zero previous value and "Inf%"
WitnessNumericChangeNullIffNA ==
  \E key \in Tickers :
    /\ cache[key] # NoEntry
    /\ cache[key].cardData.percentageChange = cInfPct
    /\ cache[key].cardData.numericPercentageChange = PosInf

\* C8: for a non-empty payload with a revenue row and a period column in the
\* first row's keys, the data returned carries the summarizer's card for that
\* row and the extractor's series for all rows, whatever the cells are;
\* otherwise the card is all "N/A" and historicalData is empty.
AssembledFromSummarizerAndExtractor ==
  \A c \in CallIds :
    calls[c].pc = "done" /\ calls[c].got.kind = "array" /\ Len(calls[c].got.rows) > 0
      => LET rows == calls[c].got.rows
             revenueRow == _findRevenueRow(rows)
         IN  IF revenueRow # 0 /\ Len(DateColumnsOf(rows)) > 0
             THEN \E cols \in SortResults(DateColumnsOf(rows)) :
                    /\ calls[c].result.cardData = _processRevenueCardData(rows[revenueRow], cols)
                    /\ calls[c].result.cardData # NACard
                    /\ ~_extractHistoricalData(rows, cols).threw
                    /\ calls[c].result.historicalData
                         = _extractHistoricalData(rows, cols).value
             ELSE /\ calls[c].result.cardData = NACard
                  /\ calls[c].result.historicalData = EmptyObject

----------------------------------------------------------------------------
(* Claims about the App (SpecApp) *)

Pending(i) == calls[i].pc \in {"fetching", "reading"}

\* C10: the seven calls are started together; whichever fetches fail, error
\* stays null, no call is rejected, and isLoading is false only when all seven
\* calls have completed and every company has its dashboardData: while one
\* call is pending isLoading stays true.
LoadJoinsAllSevenCalls ==
  /\ error = "null"
  /\ \A i \in Companies : calls[i].pc # "rejected"
  /\ appPc # "init" => \A i \in Companies : calls[i].pc # "idle" /\ calls[i].key = TickerKey(i)
  /\ isLoading = FALSE
       => \A i \in Companies : ~Pending(i) /\ dashboardData[i] = calls[i].result
                               /\ dashboardData[i] # NoEntry
  /\ (\E i \in Companies : Pending(i)) => isLoading = TRUE

\* the load has finished with some fetches failed and some answered
WitnessLoadJoinsAllSevenCalls ==
  /\ isLoading = FALSE
  /\ appPc = "ready"
  /\ currentCompany = magnificentSeven[1]
  /\ \E i, j \in Companies :
       /\ calls[i].got.kind = "reject" /\ dashboardData[i] = DegradedData
       /\ calls[j].got.kind = "array" /\ dashboardData[j] # DegradedData

----------------------------------------------------------------------------
(* Claims about the summarizer (SpecCard) *)

LatestValue == _getNumericValue(Get(pin.row, pin.cols[1]))
PreviousValue ==
  IF Len(pin.cols) >= 2 THEN _getNumericValue(Get(pin.row, pin.cols[2])) ELSE NullNum

\* the summarizer has run on two parsed values, the previous one zero
ZeroPreviousCase ==
  /\ pout # NotRun
  /\ LatestValue # NullNum /\ PreviousValue # NullNum
  /\ NumEq(PreviousValue, Zero)

\* C4 as stated: with a zero previous value, a positive delta gives "Inf%" and
\* +infinity, and a delta <= 0, latest == previous == 0 included, gives
\* "-Inf%" and -infinity.
ZeroPreviousNonPositiveIsNegInf ==
  ZeroPreviousCase
    => IF NumGt(NumSub(LatestValue, PreviousValue), Zero)
       THEN pout.percentageChange = cInfPct /\ pout.numericPercentageChange = PosInf
       ELSE pout.percentageChange = cNegInfPct /\ pout.numericPercentageChange = NegInf

\* C4 (amended): with a zero previous value, a positive delta gives "Inf%" and
\* +infinity, a negative delta gives "-Inf%" and -infinity, and latest ==
\* previous == 0 leaves percentageChange "N/A" and numericPercentageChange null.
ZeroPreviousZeroDeltaIsNA ==
  ZeroPreviousCase
    => LET delta == NumSub(LatestValue, PreviousValue)
       IN  /\ NumGt(delta, Zero)
                => pout.percentageChange = cInfPct /\ pout.numericPercentageChange = PosInf
           /\ NumLt(delta, Zero)
                => pout.percentageChange = cNegInfPct /\ pout.numericPercentageChange = NegInf
           /\ NumEq(delta, Zero)
                => pout.percentageChange = cNA /\ pout.numericPercentageChange = NullNum

\* the summarizer has run on latest == previous == 0
WitnessZeroPreviousZeroDeltaIsNA ==
  /\ ZeroPreviousCase
  /\ NumEq(LatestValue, Zero)
  /\ pout.percentageChange = cNA
  /\ pout.change = c0

\* the year of the date the latest header parses to exceeds 1900
LatestYearExceeds1900 ==
  NumGt(getFullYear(_parseDateStringForSorting(pin.cols[1])), Rat(1900, 1))

QuarterLabel ==
  LET date == _parseDateStringForSorting(pin.cols[1])
  IN  <<"Q">> \o NatToStr((LocalCivil(date).m - 1) \div 3 + 1)
      \o <<" ">> \o NatToStr(LocalCivil(date).y)

\* C7 as stated: revenueLabel is "Q<quarter> <year>" when the year of the
\* parsed latest header exceeds 1900 and "Latest (<latest>)" in every other case.
OtherwiseLabelIsLatestFallback ==
  pout # NotRun
    => pout.revenueLabel =
         IF LatestYearExceeds1900 THEN QuarterLabel
         ELSE <<"L", "a", "t", "e", "s", "t", " ", "(">> \o pin.cols[1] \o <<")">>

\* C7 (amended): revenueLabel is "Q<quarter> <year>" when the year of the
\* parsed latest header exceeds 1900; in every other case (an invalid date, or
\* a year of 1900 or less) it is the latest header itself, unchanged.
OtherwiseLabelIsHeader ==
  pout # NotRun
    => pout.revenueLabel = IF LatestYearExceeds1900 THEN QuarterLabel ELSE pin.cols[1]

\* the summarizer has run on a latest header whose month is no English
\* abbreviation and has left the header as the label
WitnessOtherwiseLabelIsHeader ==
  /\ pout # NotRun
  /\ pin.cols[1] = hDmyFoo
  /\ ~_parseDateStringForSorting(pin.cols[1]).valid
  /\ pout.revenueLabel = hDmyFoo

----------------------------------------------------------------------------
(* Claims about the row selector (SpecFind) *)

LabelValue(row) == _getNumericValue(Get(row, cEmpty))

Eligible(row) ==
  /\ LabelValue(row) # NullNum
  /\ NumGt(LabelValue(row), Rat(100, 1))
  /\ \E i \in 1 .. Len(row) : _isDateColumn(row[i].k)

Disqualified(row) ==
  /\ Get(row, cRelease).t = "string"
  /\ Trim(Get(row, cRelease).s) \in {cQuarter, cEpisode, cPeriod, cMetric}

Qualifying(data) == {i \in 1 .. Len(data) : Eligible(data[i]) /\ ~Disqualified(data[i])}

\* C6: the row returned is the first one with the largest label value among
\* the eligible rows that are not disqualified; a disqualified row is never
\* returned and never blocks a later, smaller qualifying row; the result is
\* null exactly when no row qualifies.
FindReturnsFirstLargestQualifying ==
  pout # NotRun
    => IF Qualifying(pin.data) = {} THEN pout.row = 0
       ELSE /\ pout.row \in Qualifying(pin.data)
            /\ \A j \in Qualifying(pin.data) :
                 /\ ~NumGt(LabelValue(pin.data[j]), LabelValue(pin.data[pout.row]))
                 /\ LabelValue(pin.data[j]) = LabelValue(pin.data[pout.row]) => pout.row <= j

\* a larger disqualified row first, then two qualifying rows of equal value:
\* the second row is returned
WitnessFindReturnsFirstLargestQualifying ==
  /\ pout # NotRun
  /\ Len(pin.data) = 3
  /\ Eligible(pin.data[1]) /\ Disqualified(pin.data[1])
  /\ Qualifying(pin.data) = {2, 3}
  /\ NumGt(LabelValue(pin.data[1]), LabelValue(pin.data[2]))
  /\ LabelValue(pin.data[2]) = LabelValue(pin.data[3])
  /\ pout.row = 2

----------------------------------------------------------------------------
(* Claims about the extractor (SpecHist) *)

\* the metric name of a row whose label cells are strings or falsy
MetricName(row) == Trim(MetricCell(row).s)

Retained(row, cols) ==
  /\ MetricName(row) # cEmpty
  /\ MetricName(row) \notin {cQuarter, cEpisode}
  /\ \E i \in 1 .. Len(cols) : _getNumericValue(Get(row, cols[i])) # NullNum

\* C9: the extractor returns a mapping with a key m exactly when some row of
\* metric name m is retained (m not empty, not "Quarter" or "Episode", some
\* period cell parses); the series under m is that of the last such row, with
\* one entry per period whose cell parses, in the reverse of the column order.
ExtractReturnsSeriesOfLastRetainedRow ==
  pout # NotRun
    => /\ ~pout.threw
       /\ LET kept == {i \in 1 .. Len(pin.data) : Retained(pin.data[i], pin.cols)}
          IN  /\ DOMAIN pout.value = {MetricName(pin.data[i]) : i \in kept}
              /\ \A i \in kept :
                   (\A j \in kept : MetricName(pin.data[j]) = MetricName(pin.data[i]) => j <= i)
                     => pout.value[MetricName(pin.data[i])]
                          = SeriesOf(pin.data[i], Reverse(pin.cols))

----------------------------------------------------------------------------
(* Claims about the numeric parser (SpecNumeric) *)

\* null when the parse gave NaN, else the parsed number
ParsedOrNull(parsed) == IF IsNaN(parsed) THEN NullNum ELSE parsed

\* the rule as specified, for a string whose commas are already removed: a
\* string that ends with "%" is the float parsed from the rest, divided by
\* 100; else a string in parentheses is the float parsed from a minus sign
\* and the inner text; else the float parsed from the string
SpecifiedStringValue(clean) ==
  IF EndsWith(clean, "%")
  THEN (IF IsNaN(parseFloat(SubSeq(clean, 1, Len(clean) - 1))) THEN NullNum
        ELSE NumDiv(parseFloat(SubSeq(clean, 1, Len(clean) - 1)), Rat(100, 1)))
  ELSE IF StartsWith(clean, "(") /\ EndsWith(clean, ")")
  THEN ParsedOrNull(parseFloat(<<"-">> \o SubSeq(clean, 2, Len(clean) - 1)))
  ELSE ParsedOrNull(parseFloat(clean))

SpecifiedNumericValue(value) ==
  CASE value.t = "number" -> value.v
    [] value.t = "string" -> SpecifiedStringValue(RemoveAll(value.s, ","))
    [] OTHER -> NullNum

\* C11: for every input the result is the one the specified rule gives: a
\* number unchanged; a string without its commas by the percent rule if it
\* ends with "%", else by the parenthesis rule, else by its numeric prefix;
\* null for every other type.
NumericValueFollowsSpecifiedRule ==
  pout # NotRun => pout.value = SpecifiedNumericValue(pin.value)

----------------------------------------------------------------------------
(* Claims about the order of the period columns (SpecSort) *)

\* the date a header is sorted by
SortDate(header) == _parseDateStringForSorting(header)

\* C12: every header the filter accepts is sorted by a valid date, and the
\* list handed to the summarizer is in descending order of these dates, so
\* its first element is a most recent period.
PeriodsSortedLatestFirst ==
  pout # NotRun
    => /\ \A i \in 1 .. Len(pout.allDateColumns) : SortDate(pout.allDateColumns[i]).valid
       /\ \A i, j \in 1 .. Len(pout.allDateColumns) :
            i < j => SortDate(pout.allDateColumns[i]).t >= SortDate(pout.allDateColumns[j]).t

====
